---- MODULE Spec2Model ----
(***************************************************************************)
(* kvfifo<K, V> (src/kvfifo.h): a FIFO of (key, value) entries kept in a   *)
(* std::list B, indexed by a std::map A from key to the list of iterators  *)
(* (handles) of the entries with that key, both held through shared_ptr    *)
(* and copied on write.                                                    *)
(*                                                                         *)
(* A and B are separate shared_ptrs in the source, but every constructor   *)
(* and operator= copies or swaps both together, so one object id stands    *)
(* for the pair (A, B) and use_count is the same for both.                 *)
(*                                                                         *)
(* List nodes and state objects are identified by numbers that play the    *)
(* role of addresses.  Only equality of addresses matters, so every action *)
(* ends by renumbering them canonically (Norm): objects in the order of    *)
(* the instances that hold them, nodes in the order of the list.           *)
(***************************************************************************)
EXTENDS Integers, Sequences, FiniteSets, TLC

\* bounds of the model
MaxKey == 2
MaxVal == 2
\* the list nodes alive in all state objects together
MaxNodes == 3

Keys == 1..MaxKey
Vals == 1..MaxVal

\* the container instances of the program, in a fixed order
InstOrder == <<"a", "b">>
Insts == {InstOrder[n] : n \in 1..Len(InstOrder)}

\* a null shared_ptr
Null == 0
\* addresses of state objects: one per instance and one for the copy under construction
ObjIds == 1..(Len(InstOrder) + 1)

VARIABLES
  inst,   \* inst[i] = [obj, must_copy]: the members A/B (one id) and must_copy of instance i
  heap,   \* heap[o] = [A, keys, B]: the map and the list an object id stands for
  ref,    \* the mutable reference (V &) the caller holds, if any
  op      \* the last call: [name, inst, res, forked]

vars == <<inst, heap, ref, op>>

----------------------------------------------------------------------------
\* std::list<std::pair<K, V>> and std::map<K, std::list<list_ptr_t>>

\* a list node: its address and the pair it stores
Node(id, key, val) == [id |-> id, key |-> key, val |-> val]

\* make_shared<map_t>(), make_shared<list_t>(): an empty map and an empty list.
\* The map is A restricted to keys; A[k] = <<>> for every k not in keys.
EmptyObj == [A |-> [k \in Keys |-> <<>>], keys |-> {}, B |-> <<>>]

NodeIdsOf(B) == {B[p].id : p \in 1..Len(B)}

\* the position in B of the node with address id
PosOf(B, id) == CHOOSE p \in 1..Len(B) : B[p].id = id

\* the address of a newly allocated node: any address not in use; the least one
FreshNode(B) == CHOOSE n \in 1..(Len(B) + 1) :
                  /\ n \notin NodeIdsOf(B)
                  /\ \A m \in 1..(Len(B) + 1) : m \notin NodeIdsOf(B) => n <= m

\* B->emplace_back(key, val)
emplace_back(B, key, val) == Append(B, Node(FreshNode(B), key, val))

\* B->pop_back()
pop_back(B) == SubSeq(B, 1, Len(B) - 1)

\* B->erase(it): the other nodes keep their addresses and their order
erase(B, id) == SelectSeq(B, LAMBDA e : e.id # id)

\* B->splice(B->end(), *B, it): the node itself is relinked at the end
splice_end(B, id) == Append(erase(B, id), B[PosOf(B, id)])

\* A->contains(key)
contains(o, key) == key \in o.keys

\* A->erase(key)
erase_key(o, key) == [o EXCEPT !.keys = @ \ {key}, !.A[key] = <<>>]

----------------------------------------------------------------------------
\* the private and public operations, on a world w = [ins, h]: the instances
\* (with the temporaries alive during a call) and the heap

\* shared_ptr::use_count of the object o
use_count(ins, o) == Cardinality({j \in DOMAIN ins : ins[j].obj = o})

\* A.unique() (B.unique() is the same); false for a null pointer
unique(ins, i) == ins[i].obj # Null /\ use_count(ins, ins[i].obj) = 1

\* a copy() that looks at the flag alone, not at the sharing
NeedsCopyFlagOnly(ins, i) == ins[i].must_copy

\* a copy() that looks at the sharing alone, not at the flag
NeedsCopyShared(ins, i) == ~unique(ins, i)

\* the condition of copy()
NeedsCopy(ins, i) == ins[i].must_copy \/ ~unique(ins, i)

\* an address for a new state object: one that no instance holds, and that none
\* held when the call began (the address of an object freed during the call is
\* not used again in it, so a reference into the freed object is seen to dangle)
FreshObj(ins) ==
  CHOOSE o \in ObjIds : /\ \A j \in DOMAIN ins : ins[j].obj # o
                        /\ \A j \in Insts : inst[j].obj # o

\* The body of push after copy(), on the object o the instance now owns alone.
\* f names the point where an exception is thrown, "none" when none is:
\*   "entry"   B->emplace_back(key, val) throws (allocation or the copy of val);
\*   "bucket"  (*A)[key] throws while inserting the key (allocation);
\*   "handle"  the bucket's emplace_back throws (allocation).
push_body(o, key, val, f) ==
  IF f = "entry" THEN o
  ELSE
    LET B1 == emplace_back(o.B, key, val)
        it == B1[Len(B1)].id
    IN IF f = "bucket"
       THEN \* do_pop_back: B->pop_back(); A does not contain key
            [o EXCEPT !.B = pop_back(B1)]
       ELSE
         LET o1 == [o EXCEPT !.B = B1, !.keys = @ \cup {key}]
         IN IF f = "handle"
            THEN \* do_pop_back: B->pop_back(); erase the key if its bucket is empty
                 LET o2 == [o1 EXCEPT !.B = pop_back(B1)]
                 IN IF contains(o2, key) /\ o2.A[key] = <<>>
                    THEN erase_key(o2, key) ELSE o2
            ELSE [o1 EXCEPT !.A[key] = Append(@, it)]

\* the loop of copy(): new_this.push(key, val) for the entries of B from the
\* n-th on (new_this is unique and not flagged, so its own copy() does nothing)
RECURSIVE push_all(_, _, _)
push_all(new_this, B, n) ==
  IF n > Len(B) THEN new_this
  ELSE push_all(push_body(new_this, B[n].key, B[n].val, "none"), B, n + 1)

\* copy() when its condition holds and nothing throws: *this = new_this leaves
\* this instance the only holder of the new object, with must_copy false
\* (operator= copies new_this.must_copy); the old object loses one holder.
fork(w, i) ==
  LET o == FreshObj(w.ins)
  IN [ins |-> [w.ins EXCEPT ![i] = [obj |-> o, must_copy |-> FALSE]],
      h   |-> [w.h EXCEPT ![o] = push_all(EmptyObj, w.h[w.ins[i].obj].B, 1)]]

\* copy()
copy(w, i) == IF NeedsCopy(w.ins, i) THEN fork(w, i) ELSE w

\* the object instance i holds
Obj(w, i) == w.h[w.ins[i].obj]

\* w with the object of instance i replaced by o
WithObj(w, i, o) == [w EXCEPT !.h[w.ins[i].obj] = o]

----------------------------------------------------------------------------
\* addresses up to renaming, and the reference the caller holds

\* no reference, or one that dangles: the caller may not use it
NoRef == [st |-> "none", by |-> InstOrder[1], obj |-> 0, node |-> 0]
LiveRef(by, o, n) == [st |-> "live", by |-> by, obj |-> o, node |-> n]

\* the objects the instances hold, each once, in the order of InstOrder from
\* its n-th instance on, after those of seq
RECURSIVE HeldFrom(_, _, _)
HeldFrom(ins, seq, n) ==
  IF n > Len(InstOrder) THEN seq
  ELSE LET o == ins[InstOrder[n]].obj
       IN HeldFrom(ins,
                   IF o = Null \/ \E p \in 1..Len(seq) : seq[p] = o
                   THEN seq ELSE Append(seq, o),
                   n + 1)

Held(ins) == HeldFrom(ins, <<>>, 1)

\* the position of x in the sequence seq
Index(seq, x) == CHOOSE p \in 1..Len(seq) : seq[p] = x

\* a handle's node renamed to its position in B; 0 when no node of B has that address
NewNode(B, id) == IF id \in NodeIdsOf(B) THEN PosOf(B, id) ELSE 0

RenumObj(o) ==
  [A    |-> [k \in Keys |-> [q \in 1..Len(o.A[k]) |-> NewNode(o.B, o.A[k][q])]],
   keys |-> o.keys,
   B    |-> [p \in 1..Len(o.B) |-> Node(p, o.B[p].key, o.B[p].val)]]

\* The state after a call: the temporaries are destroyed, an object no instance
\* holds is freed, a reference into a freed object or to an erased node dangles,
\* and the addresses are renamed.
Norm(w, r) ==
  LET held == Held(w.ins)
  IN [ins |-> [i \in Insts |->
                 [obj |-> IF w.ins[i].obj = Null THEN Null ELSE Index(held, w.ins[i].obj),
                  must_copy |-> w.ins[i].must_copy]],
      h   |-> [n \in ObjIds |->
                 IF n <= Len(held) THEN RenumObj(w.h[held[n]]) ELSE EmptyObj],
      r   |-> IF r.st # "live" THEN r
              ELSE IF (\E p \in 1..Len(held) : held[p] = r.obj)
                      /\ r.node \in NodeIdsOf(w.h[r.obj].B)
                   THEN LiveRef(r.by, Index(held, r.obj), PosOf(w.h[r.obj].B, r.node))
                   ELSE NoRef]

\* the number of list nodes in the heap h
RECURSIVE NodesIn(_, _)
NodesIn(h, n) == IF n = 0 THEN 0 ELSE Len(h[n].B) + NodesIn(h, n - 1)

NodesAlive(h) == NodesIn(h, Len(InstOrder) + 1)

\* the world before the call
Now == [ins |-> inst, h |-> heap]

\* undefined behaviour ends the run: nothing is known about what follows it,
\* and the state after it stands for any state
Running == op.res # "undefined"

\* instance i holds in w a state object built during the call (by copy())
Fresh(w, i) == w.ins[i].obj # Null /\ \A j \in Insts : inst[j].obj # w.ins[i].obj

\* the call name(i) ends with result res in world w, the caller holding r
Done(name, i, res, w, r) ==
  LET n == Norm(w, r)
  IN /\ NodesAlive(n.h) <= MaxNodes
     /\ inst' = n.ins
     /\ heap' = n.h
     /\ ref' = n.r
     /\ op' = [name |-> name, inst |-> i, res |-> res, forked |-> Fresh(w, i)]

\* the call ends with result res and has changed nothing
Throws(name, i, res) ==
  /\ op' = [name |-> name, inst |-> i, res |-> res, forked |-> FALSE]
  /\ UNCHANGED <<inst, heap, ref>>

\* the call has undefined behaviour
Undefined(name, i) ==
  /\ inst' = [j \in Insts |-> [obj |-> Null, must_copy |-> FALSE]]
  /\ heap' = [o \in ObjIds |-> EmptyObj]
  /\ ref' = NoRef
  /\ op' = [name |-> name, inst |-> i, res |-> "undefined", forked |-> FALSE]

\* kvfifo(): every instance starts default-constructed, with its own empty state
Init ==
  /\ inst = [i \in Insts |-> [obj |-> CHOOSE n \in 1..Len(InstOrder) : InstOrder[n] = i,
                              must_copy |-> FALSE]]
  /\ heap = [o \in ObjIds |-> EmptyObj]
  /\ ref = NoRef
  /\ op = [name |-> "kvfifo", inst |-> InstOrder[1], res |-> "ok", forked |-> FALSE]

----------------------------------------------------------------------------
\* the public operations.  ff: the copy made by copy() throws (a value copy or
\* an allocation fails); it is possible only when copy() does copy.

\* the result of a call that threw from a value copy or an allocation
Failure == "failure"

push(i, key, val, f) ==
  /\ Running
  /\ IF inst[i].obj = Null
     THEN f = "none" /\ Undefined("push", i)
     ELSE IF f = "fork"
     THEN NeedsCopy(inst, i) /\ Throws("push", i, Failure)
     ELSE LET w1 == copy(Now, i)
              o  == Obj(w1, i)
          IN /\ (f = "bucket") => ~contains(o, key)
             /\ Done("push", i, IF f = "none" THEN "ok" ELSE Failure,
                     WithObj(w1, i, push_body(o, key, val, f)), ref)

\* a pop() that erases the key whether or not its bucket has become empty
pop_body_erasing(o) ==
  LET key == o.B[1].key
      o1  == [o EXCEPT !.B = Tail(@), !.keys = @ \cup {key}]
  IN IF o1.A[key] = <<>> THEN [ub |-> TRUE, o |-> o]
     ELSE [ub |-> FALSE, o |-> erase_key(o1, key)]

\* a pop() that takes the entry at the back, and the back handle of its bucket
pop_body_back(o) ==
  LET key == o.B[Len(o.B)].key
      o1  == [o EXCEPT !.B = pop_back(@), !.keys = @ \cup {key}]
  IN IF o1.A[key] = <<>> THEN [ub |-> TRUE, o |-> o]
     ELSE LET o2 == [o1 EXCEPT !.A[key] = SubSeq(@, 1, Len(@) - 1)]
          IN [ub |-> FALSE,
              o  |-> IF o2.A[key] = <<>> THEN erase_key(o2, key) ELSE o2]

\* the body of pop() after copy(); ub is set on undefined behaviour
\* (pop_front on the empty bucket that (*A)[key] has just inserted or found)
pop_body(o) ==
  LET key == o.B[1].key
      o1  == [o EXCEPT !.B = Tail(@), !.keys = @ \cup {key}]
  IN IF o1.A[key] = <<>> THEN [ub |-> TRUE, o |-> o]
     ELSE LET o2 == [o1 EXCEPT !.A[key] = Tail(@)]
          IN [ub |-> FALSE,
              o  |-> IF o2.A[key] = <<>> THEN erase_key(o2, key) ELSE o2]

\* a pop() that calls copy() before it looks whether the container is empty
pop_copying_first(i, ff) ==
  /\ Running
  /\ IF inst[i].obj = Null
     THEN ~ff /\ Undefined("pop", i)
     ELSE IF ff
     THEN NeedsCopy(inst, i) /\ Throws("pop", i, Failure)
     ELSE LET w1 == copy(Now, i)
              r  == pop_body(Obj(w1, i))
          IN IF Obj(w1, i).B = <<>> THEN Done("pop", i, "empty", w1, ref)
             ELSE IF r.ub THEN Undefined("pop", i)
             ELSE Done("pop", i, "ok", WithObj(w1, i, r.o), ref)

pop(i, ff) ==
  /\ Running
  /\ IF inst[i].obj = Null
     THEN ~ff /\ Undefined("pop", i)
     ELSE IF Obj(Now, i).B = <<>>
     THEN ~ff /\ Throws("pop", i, "empty")
     ELSE IF ff
     THEN NeedsCopy(inst, i) /\ Throws("pop", i, Failure)
     ELSE LET w1 == copy(Now, i)
              r  == pop_body(Obj(w1, i))
          IN IF r.ub THEN Undefined("pop", i)
             ELSE Done("pop", i, "ok", WithObj(w1, i, r.o), ref)

\* a pop(key) that erases the entry and leaves its handle in the bucket
pop_key_body_keeping(o, key) ==
  LET o1 == [o EXCEPT !.keys = @ \cup {key}]
  IN IF o1.A[key] = <<>> \/ Head(o1.A[key]) \notin NodeIdsOf(o1.B)
     THEN [ub |-> TRUE, o |-> o]
     ELSE [ub |-> FALSE, o |-> [o1 EXCEPT !.B = erase(@, Head(o1.A[key]))]]

\* the body of pop(key) after copy(); ub is set on undefined behaviour
\* (bucket.front() of an empty bucket, or erase of an iterator that is not in B)
pop_key_body(o, key) ==
  LET o1 == [o EXCEPT !.keys = @ \cup {key}]
  IN IF o1.A[key] = <<>> \/ Head(o1.A[key]) \notin NodeIdsOf(o1.B)
     THEN [ub |-> TRUE, o |-> o]
     ELSE [ub |-> FALSE,
           o  |-> [o1 EXCEPT !.B = erase(@, Head(o1.A[key])), !.A[key] = Tail(@)]]

pop_key(i, key, ff) ==
  /\ Running
  /\ IF inst[i].obj = Null
     THEN ~ff /\ Undefined("pop_key", i)
     ELSE IF ~contains(Obj(Now, i), key)
     THEN ~ff /\ Throws("pop_key", i, "key not found")
     ELSE IF ff
     THEN NeedsCopy(inst, i) /\ Throws("pop_key", i, Failure)
     ELSE LET w1 == copy(Now, i)
              r  == pop_key_body(Obj(w1, i), key)
          IN IF r.ub THEN Undefined("pop_key", i)
             ELSE Done("pop_key", i, "ok", WithObj(w1, i, r.o), ref)

\* the loop of move_to_back: splice the nodes of the bucket, from its n-th handle on
RECURSIVE splice_all(_, _, _)
splice_all(B, bucket, n) ==
  IF n > Len(bucket) THEN B
  ELSE splice_all(splice_end(B, bucket[n]), bucket, n + 1)

\* a move_to_back that goes through the bucket from its back to its front
move_to_back_body_reversed(o, key) ==
  LET o1 == [o EXCEPT !.keys = @ \cup {key}]
      bucket == o1.A[key]
  IN IF \E q \in 1..Len(bucket) : bucket[q] \notin NodeIdsOf(o1.B)
     THEN [ub |-> TRUE, o |-> o]
     ELSE [ub |-> FALSE,
           o  |-> [o1 EXCEPT !.B = splice_all(@, [q \in 1..Len(bucket) |->
                                                     bucket[Len(bucket) + 1 - q]], 1)]]

\* a move_to_back that moves the first entry of the key and no other
move_to_back_body_first(o, key) ==
  LET o1 == [o EXCEPT !.keys = @ \cup {key}]
  IN IF \E q \in 1..Len(o1.A[key]) : o1.A[key][q] \notin NodeIdsOf(o1.B)
     THEN [ub |-> TRUE, o |-> o]
     ELSE [ub |-> FALSE,
           o  |-> IF o1.A[key] = <<>> THEN o1
                  ELSE [o1 EXCEPT !.B = splice_end(@, Head(o1.A[key])),
                                  !.A[key] = Tail(@) \o <<Head(@)>>]]

\* the body of move_to_back after copy(); ub is set on undefined behaviour
\* (splice of an iterator that is not in B)
move_to_back_body(o, key) ==
  LET o1 == [o EXCEPT !.keys = @ \cup {key}]
  IN IF \E q \in 1..Len(o1.A[key]) : o1.A[key][q] \notin NodeIdsOf(o1.B)
     THEN [ub |-> TRUE, o |-> o]
     ELSE [ub |-> FALSE, o |-> [o1 EXCEPT !.B = splice_all(@, o1.A[key], 1)]]

\* a move_to_back that copies the values of the entries it moves, so that it
\* can throw whenever the key has an entry
move_to_back_copying(i, key, ff) ==
  /\ Running
  /\ IF inst[i].obj = Null
     THEN ~ff /\ Undefined("move_to_back", i)
     ELSE IF ~contains(Obj(Now, i), key)
     THEN ~ff /\ Throws("move_to_back", i, "key not found")
     ELSE IF ff
     THEN /\ NeedsCopy(inst, i) \/ Obj(Now, i).A[key] # <<>>
          /\ Throws("move_to_back", i, Failure)
     ELSE LET w1 == copy(Now, i)
              r  == move_to_back_body(Obj(w1, i), key)
          IN IF r.ub THEN Undefined("move_to_back", i)
             ELSE Done("move_to_back", i, "ok", WithObj(w1, i, r.o), ref)

move_to_back(i, key, ff) ==
  /\ Running
  /\ IF inst[i].obj = Null
     THEN ~ff /\ Undefined("move_to_back", i)
     ELSE IF ~contains(Obj(Now, i), key)
     THEN ~ff /\ Throws("move_to_back", i, "key not found")
     ELSE IF ff
     THEN NeedsCopy(inst, i) /\ Throws("move_to_back", i, Failure)
     ELSE LET w1 == copy(Now, i)
              r  == move_to_back_body(Obj(w1, i), key)
          IN IF r.ub THEN Undefined("move_to_back", i)
             ELSE Done("move_to_back", i, "ok", WithObj(w1, i, r.o), ref)

clear(i, ff) ==
  /\ Running
  /\ IF inst[i].obj = Null
     THEN ~ff /\ Undefined("clear", i)
     ELSE IF ff
     THEN NeedsCopy(inst, i) /\ Throws("clear", i, Failure)
     ELSE Done("clear", i, "ok", WithObj(copy(Now, i), i, EmptyObj), ref)

\* The non-const accessors.  which names the entry: "front", "back", "first" or
\* "last" (the key is used by the last two).  The caller keeps the reference
\* returned (keep = FALSE: it replaces the reference held) or drops it.
\* ub is set on undefined behaviour (front()/back() of an empty bucket).
\* an entry_of whose last(key) takes the front handle of the bucket
entry_of_front_handle(o, which, key) ==
  IF which = "front" THEN [ub |-> FALSE, node |-> o.B[1].id]
  ELSE IF which = "back" THEN [ub |-> FALSE, node |-> o.B[Len(o.B)].id]
  ELSE IF o.A[key] = <<>> THEN [ub |-> TRUE, node |-> 0]
  ELSE [ub |-> FALSE, node |-> Head(o.A[key])]

entry_of(o, which, key) ==
  IF which = "front" THEN [ub |-> FALSE, node |-> o.B[1].id]
  ELSE IF which = "back" THEN [ub |-> FALSE, node |-> o.B[Len(o.B)].id]
  ELSE IF o.A[key] = <<>> THEN [ub |-> TRUE, node |-> 0]
  ELSE IF which = "first" THEN [ub |-> FALSE, node |-> Head(o.A[key])]
  ELSE [ub |-> FALSE, node |-> o.A[key][Len(o.A[key])]]

\* the precondition check of an accessor: the error it throws, "ok" when none
precondition(o, which, key) ==
  IF which \in {"front", "back"}
  THEN IF o.B = <<>> THEN "empty" ELSE "ok"
  ELSE IF ~contains(o, key) THEN "key not found" ELSE "ok"

\* front(), back(), first(key), last(key)
accessor(i, which, key, ff, keep) ==
  /\ Running
  /\ IF inst[i].obj = Null
     THEN ~ff /\ ~keep /\ Undefined(which, i)
     ELSE IF precondition(Obj(Now, i), which, key) # "ok"
     THEN ~ff /\ ~keep /\ Throws(which, i, precondition(Obj(Now, i), which, key))
     ELSE IF ff
     THEN ~keep /\ NeedsCopy(inst, i) /\ Throws(which, i, Failure)
     ELSE LET w1 == copy(Now, i)
              o  == Obj(w1, i)
              \* (*A)[key] inserts the key when the copy has dropped its empty bucket
              o1 == IF which \in {"first", "last"} THEN [o EXCEPT !.keys = @ \cup {key}] ELSE o
              e  == entry_of(o1, which, key)
              w2 == [WithObj(w1, i, o1) EXCEPT !.ins[i].must_copy = TRUE]
          IN IF e.ub THEN ~keep /\ Undefined(which, i)
             ELSE Done(which, i, "ok", w2,
                       IF keep THEN ref ELSE LiveRef(i, w2.ins[i].obj, e.node))

\* the name under which a call of a const accessor is recorded
ConstName(which) ==
  CASE which = "front" -> "front const"
    [] which = "back"  -> "back const"
    [] which = "first" -> "first const"
    [] which = "last"  -> "last const"

\* a const accessor that calls copy() as the non-const one does
const_accessor_copying(i, which, key) ==
  /\ Running
  /\ IF inst[i].obj = Null
     THEN Undefined(ConstName(which), i)
     ELSE IF precondition(Obj(Now, i), which, key) # "ok"
     THEN Throws(ConstName(which), i, precondition(Obj(Now, i), which, key))
     ELSE IF entry_of(Obj(Now, i), which, key).ub
     THEN Undefined(ConstName(which), i)
     ELSE Done(ConstName(which), i, "ok", copy(Now, i), ref)

\* front() const, back() const, first(key) const, last(key) const: no copy(),
\* no flag; find(key) inserts nothing
const_accessor(i, which, key) ==
  /\ Running
  /\ IF inst[i].obj = Null
     THEN Undefined(ConstName(which), i)
     ELSE IF precondition(Obj(Now, i), which, key) # "ok"
     THEN Throws(ConstName(which), i, precondition(Obj(Now, i), which, key))
     ELSE IF entry_of(Obj(Now, i), which, key).ub
     THEN Undefined(ConstName(which), i)
     ELSE Throws(ConstName(which), i, "ok")

\* size(), empty(), count(key), k_begin(), k_end(): they read through A or B
\* (a null pointer in a moved-from instance) and write nothing
ObserverNames == {"size", "empty", "count", "k_begin", "k_end"}

observer(i, name) ==
  /\ Running
  /\ IF inst[i].obj = Null THEN Undefined(name, i) ELSE Throws(name, i, "ok")

\* the caller assigns val through the reference it holds
write(val) ==
  /\ Running
  /\ ref.st = "live"
  /\ Done("write", ref.by, "ok",
          [Now EXCEPT !.h[ref.obj].B[ref.node].val = val], ref)

\* a copy constructor that shares the state of a flagged source as well
copy_construct_sharing(w, t, s) ==
  [ub |-> FALSE, forks |-> FALSE, w |-> [w EXCEPT !.ins[t] = w.ins[s]]]

\* kvfifo(const kvfifo &other), constructing the temporary or instance t of the
\* world w from s: ub on undefined behaviour (copy() of a null B)
copy_construct(w, t, s) ==
  LET w1 == [w EXCEPT !.ins[t] = w.ins[s]]
  IN IF ~w1.ins[t].must_copy THEN [ub |-> FALSE, forks |-> FALSE, w |-> w1]
     ELSE IF w1.ins[t].obj = Null THEN [ub |-> TRUE, forks |-> FALSE, w |-> w]
     ELSE [ub |-> FALSE, forks |-> TRUE, w |-> copy(w1, t)]

\* a move constructor that keeps the state and the flag it has taken
move_construct_keeping(w, t, s) ==
  [ub |-> FALSE, forks |-> FALSE,
   w |-> [w EXCEPT !.ins[t] = w.ins[s], !.ins[s].obj = Null]]

\* kvfifo(kvfifo &&other): the members of this start null and are swapped with
\* those of other
move_construct(w, t, s) ==
  LET w1 == [w EXCEPT !.ins[t] = w.ins[s], !.ins[s].obj = Null]
  IN IF ~w1.ins[t].must_copy THEN [ub |-> FALSE, forks |-> FALSE, w |-> w1]
     ELSE IF w1.ins[t].obj = Null THEN [ub |-> TRUE, forks |-> FALSE, w |-> w]
     ELSE [ub |-> FALSE, forks |-> TRUE, w |-> copy(w1, t)]

\* operator=(kvfifo other), on instance d of a world with the parameter other
operator_assign(w, d) ==
  LET w1 == [w EXCEPT !.ins[d] = w.ins["other"],
                      !.ins["other"] = [obj |-> w.ins[d].obj,
                                        must_copy |-> w.ins["other"].must_copy]]
  IN IF ~w1.ins[d].must_copy THEN [ub |-> FALSE, forks |-> FALSE, w |-> w1]
     ELSE IF w1.ins[d].obj = Null THEN [ub |-> TRUE, forks |-> FALSE, w |-> w]
     ELSE [ub |-> FALSE, forks |-> TRUE, w |-> copy(w1, d)]

\* the world with the parameter of operator= not yet constructed
WithOther == [Now EXCEPT !.ins = @ @@ ("other" :> [obj |-> Null, must_copy |-> FALSE])]

\* a call made of the steps c (a constructor) and then possibly operator=
\* ends: undefined behaviour, an exception from the copy, or the world w
Ends(name, d, c, ff) ==
  IF c.ub THEN ~ff /\ Undefined(name, d)
  ELSE IF ff THEN c.forks /\ Throws(name, d, Failure)
  ELSE Done(name, d, "ok", c.w, ref)

\* kvfifo d(s): a new instance, which takes the place of d, is copy-constructed
\* from s; when the constructor throws there is no new instance
copy_constructor(d, s, ff) ==
  /\ Running
  /\ d # s
  /\ Ends("copy_constructor", d, copy_construct(Now, d, s), ff)

\* kvfifo d(std::move(s)); when the constructor throws, the state it took from
\* s is destroyed with its members
move_constructor(d, s, ff) ==
  /\ Running
  /\ d # s
  /\ LET c == move_construct(Now, d, s)
     IN IF ff
        THEN c.forks /\ Done("move_constructor", d, Failure,
                             [Now EXCEPT !.ins[s].obj = Null], ref)
        ELSE Ends("move_constructor", d, c, ff)

\* d = s
copy_assign(d, s, ff) ==
  /\ Running
  /\ LET c == copy_construct(WithOther, "other", s)
     IN IF c.ub \/ ff THEN Ends("copy_assign", d, c, ff)
        ELSE Ends("copy_assign", d, operator_assign(c.w, d), FALSE)

\* d = std::move(s)
move_assign(d, s, ff) ==
  /\ Running
  /\ LET c == move_construct(WithOther, "other", s)
     IN IF ff
        THEN c.forks /\ Done("move_assign", d, Failure,
                             [Now EXCEPT !.ins[s].obj = Null], ref)
        ELSE IF c.ub THEN Ends("move_assign", d, c, ff)
        ELSE Ends("move_assign", d, operator_assign(c.w, d), FALSE)

\* the least element of a set of numbers
Least(S) == CHOOSE x \in S : \A y \in S : x <= y

\* every call of a mutating member function or of operator= on the instances
\* IS, with keys of KS and values of VS
Mutators(IS, KS, VS) ==
  \/ \E i \in IS, key \in KS, val \in VS,
        f \in {"none", "fork", "entry", "bucket", "handle"} : push(i, key, val, f)
  \/ \E i \in IS, ff \in BOOLEAN : pop(i, ff)
  \/ \E i \in IS, key \in KS, ff \in BOOLEAN : pop_key(i, key, ff)
  \/ \E i \in IS, key \in KS, ff \in BOOLEAN : move_to_back(i, key, ff)
  \/ \E i \in IS, ff \in BOOLEAN : clear(i, ff)
  \/ \E d \in IS, s \in IS, ff \in BOOLEAN : copy_assign(d, s, ff)
  \/ \E d \in IS, s \in IS, ff \in BOOLEAN : move_assign(d, s, ff)

\* every call of a non-const accessor on the instances IS with keys of KS, and
\* every write of a value of VS through the reference held
Accessors(IS, KS, VS) ==
  \/ \E i \in IS, which \in {"front", "back"}, ff \in BOOLEAN, keep \in BOOLEAN :
        accessor(i, which, Least(KS), ff, keep)
  \/ \E i \in IS, which \in {"first", "last"}, key \in KS,
        ff \in BOOLEAN, keep \in BOOLEAN : accessor(i, which, key, ff, keep)
  \/ \E val \in VS : write(val)

\* every call of a const accessor on the instances IS with keys of KS
Reads(IS, KS) ==
  \/ \E i \in IS, which \in {"front", "back"} : const_accessor(i, which, Least(KS))
  \/ \E i \in IS, which \in {"first", "last"}, key \in KS : const_accessor(i, which, key)

\* every call of size(), empty(), count(), k_begin(), k_end() on the instances IS
Observers(IS) == \E i \in IS, name \in ObserverNames : observer(i, name)

\* every construction of an instance of IS from another one
Constructions(IS) ==
  \/ \E d \in IS, s \in IS, ff \in BOOLEAN : copy_constructor(d, s, ff)
  \/ \E d \in IS, s \in IS, ff \in BOOLEAN : move_constructor(d, s, ff)

\* Both instances, every key and every value; the calls that change a
\* container, and the constructions.
Next == Mutators(Insts, Keys, Vals) \/ Constructions(Insts)

Spec == Init /\ [][Next]_vars

\* Both instances, one key, every value, with the accessors and the writes
\* through the references they return.
NextRef ==
  \/ Mutators(Insts, {Least(Keys)}, Vals)
  \/ Accessors(Insts, {Least(Keys)}, Vals)
  \/ Constructions(Insts)

SpecRef == Init /\ [][NextRef]_vars

\* One instance (the other stays as constructed), every key and every value,
\* every member function.
NextOne ==
  \/ Mutators({InstOrder[1]}, Keys, Vals)
  \/ Accessors({InstOrder[1]}, Keys, Vals)
  \/ Reads({InstOrder[1]}, Keys)

SpecOne == Init /\ [][NextOne]_vars

\* Both instances, one key and one value, every member function and every
\* construction, the read-only ones included.
NextRead ==
  \/ Mutators(Insts, {Least(Keys)}, {Least(Vals)})
  \/ Accessors(Insts, {Least(Keys)}, {Least(Vals)})
  \/ Reads(Insts, {Least(Keys)})
  \/ Observers(Insts)
  \/ Constructions(Insts)

SpecRead == Init /\ [][NextRead]_vars

----------------------------------------------------------------------------
\* src/unnamed/part_000, an earlier variant of the class: the same members and
\* the same copy(), pop() and pop(key); push has no catch block, and
\* move_to_back copies each entry to the back and erases the original

\* The body of push after copy().  f names the point where an exception is
\* thrown, as for push_body; nothing is undone.
push_body_000(o, key, val, f) ==
  IF f = "entry" THEN o
  ELSE
    LET B1 == emplace_back(o.B, key, val)
        it == B1[Len(B1)].id
    IN IF f = "bucket" THEN [o EXCEPT !.B = B1]
       ELSE IF f = "handle" THEN [o EXCEPT !.B = B1, !.keys = @ \cup {key}]
       ELSE [o EXCEPT !.B = B1, !.keys = @ \cup {key}, !.A[key] = Append(@, it)]

push_000(i, key, val, f) ==
  /\ Running
  /\ IF inst[i].obj = Null
     THEN f = "none" /\ Undefined("push", i)
     ELSE IF f = "fork"
     THEN NeedsCopy(inst, i) /\ Throws("push", i, Failure)
     ELSE LET w1 == copy(Now, i)
              o  == Obj(w1, i)
          IN /\ (f = "bucket") => ~contains(o, key)
             /\ Done("push", i, IF f = "none" THEN "ok" ELSE Failure,
                     WithObj(w1, i, push_body_000(o, key, val, f)), ref)

\* The loop of move_to_back from the n-th handle of the bucket on:
\* B->push_back(*it) copies the entry to the back, B->erase(it) removes the
\* original, and the handle is set to the copy.  The copy of the stop-th entry
\* throws (stop = 0: none does), which ends the loop where it is.  A handle
\* that is not in B (left by pop() after a failed call) is undefined behaviour.
RECURSIVE relocate_000(_, _, _, _)
relocate_000(o, key, n, stop) ==
  IF n > Len(o.A[key]) \/ n = stop THEN o
  ELSE LET it == o.A[key][n]
           e  == o.B[PosOf(o.B, it)]
           B1 == emplace_back(o.B, e.key, e.val)
       IN relocate_000([o EXCEPT !.B = erase(B1, it),
                                 !.A[key][n] = B1[Len(B1)].id],
                       key, n + 1, stop)

move_to_back_000(i, key, ff, stop) ==
  /\ Running
  /\ IF inst[i].obj = Null
     THEN ~ff /\ stop = 0 /\ Undefined("move_to_back", i)
     ELSE IF ~contains(Obj(Now, i), key)
     THEN ~ff /\ stop = 0 /\ Throws("move_to_back", i, "key not found")
     ELSE IF ff
     THEN stop = 0 /\ NeedsCopy(inst, i) /\ Throws("move_to_back", i, Failure)
     ELSE LET w1 == copy(Now, i)
              o  == [Obj(w1, i) EXCEPT !.keys = @ \cup {key}]
              \* the handles the loop dereferences
              used == IF stop = 0 THEN 1..Len(o.A[key]) ELSE 1..stop
          IN /\ stop <= Len(o.A[key])
             /\ IF \E q \in used : o.A[key][q] \notin NodeIdsOf(o.B)
                THEN Undefined("move_to_back", i)
                ELSE Done("move_to_back", i, IF stop = 0 THEN "ok" ELSE Failure,
                          WithObj(w1, i, relocate_000(o, key, 1, stop)), ref)

\* One instance of the variant, every key and every value: push, pop(),
\* pop(key) and move_to_back, with every point of failure.
NextPart ==
  \/ \E key \in Keys, val \in Vals,
        f \in {"none", "fork", "entry", "bucket", "handle"} :
        push_000(InstOrder[1], key, val, f)
  \/ \E ff \in BOOLEAN : pop(InstOrder[1], ff)
  \/ \E key \in Keys, ff \in BOOLEAN : pop_key(InstOrder[1], key, ff)
  \/ \E key \in Keys, ff \in BOOLEAN, stop \in 0..MaxNodes :
        move_to_back_000(InstOrder[1], key, ff, stop)

SpecPart == Init /\ [][NextPart]_vars

----------------------------------------------------------------------------
\* what a caller observes of an instance

\* the state of instance i (that of an empty container when its pointers are
\* null: a moved-from instance has no state to observe)
StateOf(i) == IF inst[i].obj = Null THEN EmptyObj ELSE heap[inst[i].obj]

\* size()
size(i) == Len(StateOf(i).B)

\* count(key)
count(i, key) == IF contains(StateOf(i), key) THEN Len(StateOf(i).A[key]) ELSE 0

\* the entries from front to back, as pairs <<key, value>>
EntriesOf(B) == [p \in 1..Len(B) |-> <<B[p].key, B[p].val>>]

Entries(i) == EntriesOf(StateOf(i).B)

\* the keys from k_begin() to k_end(): those of the std::map A, in the order of
\* its comparison (ascending), from the least key above lo on
RECURSIVE KeysAbove(_, _)
KeysAbove(S, lo) ==
  IF \A k \in S : k <= lo THEN <<>>
  ELSE LET m == Least({k \in S : k > lo}) IN <<m>> \o KeysAbove(S, m)

k_iteration(i) == KeysAbove(StateOf(i).keys, 0)

\* size(), the entries in order and every count
Observed(i) ==
  [size |-> size(i), entries |-> Entries(i), count |-> [k \in Keys |-> count(i, k)]]

\* the keys of the entries of instance i
LiveKeys(i) == {StateOf(i).B[p].key : p \in 1..Len(StateOf(i).B)}

\* the handles of the entries of B with the given key, in the order of B
HandlesOf(B, key) ==
  LET s == SelectSeq(B, LAMBDA e : e.key = key)
  IN [p \in 1..Len(s) |-> s[p].id]

\* the keys of the entries of B, each at its first occurrence, from the n-th
\* entry on, after those of seq
RECURSIVE FirstSeenFrom(_, _, _)
FirstSeenFrom(B, seq, n) ==
  IF n > Len(B) THEN seq
  ELSE FirstSeenFrom(B,
                     IF \E p \in 1..Len(seq) : seq[p] = B[n].key
                     THEN seq ELSE Append(seq, B[n].key),
                     n + 1)

\* the sum of count(key) over the keys of the sequence ks from its n-th on
RECURSIVE SumOfCounts(_, _, _)
SumOfCounts(i, ks, n) ==
  IF n > Len(ks) THEN 0 ELSE count(i, ks[n]) + SumOfCounts(i, ks, n + 1)

\* the calls that change the content of the instance they are made on
MutatorNames == {"push", "pop", "pop_key", "move_to_back", "clear"}

\* some call on instance i that takes the key and must find it
KeyedCall(i, key) ==
  \/ \E ff \in BOOLEAN : pop_key(i, key, ff)
  \/ \E ff \in BOOLEAN : move_to_back(i, key, ff)
  \/ \E which \in {"first", "last"}, ff \in BOOLEAN, keep \in BOOLEAN :
        accessor(i, which, key, ff, keep)
  \/ \E which \in {"first", "last"} : const_accessor(i, which, key)

----------------------------------------------------------------------------
\* the properties

\* C1 (copy-on-write independence): a call of push, pop, pop(key),
\* move_to_back or clear on one instance, whether it succeeds or throws,
\* leaves size(), the entries in order and every count(k) of every other
\* instance as they were, also when the two instances shared their state.
COWIndependence ==
  [][\A i \in Insts :
       (op'.inst = i /\ op'.name \in MutatorNames /\ op'.res # "undefined")
         => \A j \in Insts \ {i} : Observed(j)' = Observed(j)]_vars

\* b has pushed onto a copy it made of the non-empty state it shared with a:
\* b has one entry more than a, which still has what both had
COWIndependenceWitness ==
  /\ op = [name |-> "push", inst |-> "b", res |-> "ok", forked |-> TRUE]
  /\ size("a") > 0
  /\ size("b") = size("a") + 1
  /\ SubSeq(Entries("b"), 1, size("a")) = Entries("a")

\* C2 (aliasing rule): a write through a live reference changes the value of
\* the entry it refers to in the instance that handed the reference out, and
\* changes nothing that any other instance observes.
AliasingRule ==
  [][op'.name = "write"
       => /\ \A j \in Insts \ {ref.by} : Observed(j)' = Observed(j)
          /\ \E val \in Vals :
               Entries(ref.by)' = [Entries(ref.by) EXCEPT ![ref.node] = <<@[1], val>>]]_vars

\* a has handed out a reference, b was made as a copy of a, and the write
\* through the reference has changed the value in a alone
AliasingRuleWitness ==
  /\ op.name = "write" /\ op.inst = "a"
  /\ size("a") = 1 /\ size("b") = 1
  /\ Entries("a")[1][1] = Entries("b")[1][1]
  /\ Entries("a")[1][2] # Entries("b")[1][2]
  /\ inst["a"].must_copy /\ ~inst["b"].must_copy

\* C3 (strong exception safety of push): a push that throws leaves size(),
\* the entries, every count(k) and the key set of the index as they were, and
\* leaves no empty bucket.
PushStrongGuarantee ==
  [][\A i \in Insts :
       (op'.name = "push" /\ op'.inst = i /\ op'.res = Failure)
         => /\ Observed(i)' = Observed(i)
            /\ StateOf(i)'.keys = StateOf(i).keys
            /\ \A key \in StateOf(i)'.keys : StateOf(i)'.A[key] # <<>>]_vars

\* C4 (key absence): pop(key), move_to_back(key), first(key) and last(key)
\* end with the key-not-found error whenever count(key) = 0.
KeyNotFoundWhenAbsent ==
  [][\A i \in Insts, key \in Keys :
       (inst[i].obj # Null /\ count(i, key) = 0 /\ KeyedCall(i, key))
         => op'.res = "key not found"]_vars

\* C5 (index invariant): a key is in the index if and only if its bucket is
\* not empty.
IndexInvariant ==
  \A i \in Insts, key \in Keys :
    contains(StateOf(i), key) <=> StateOf(i).A[key] # <<>>

CountsSumToSize ==
  \A i \in Insts : SumOfCounts(i, k_iteration(i), 1) = size(i)

\* pop(key) has removed one of the two entries of a key, and another key has
\* an entry as well
CountsSumToSizeWitness ==
  /\ op.name = "pop_key" /\ op.res = "ok"
  /\ size("a") = 2
  /\ Len(k_iteration("a")) = 2
  /\ \A key \in Keys : count("a", key) = 1

\* C8 (buckets mirror the sequence): the bucket of a key holds the handles of
\* exactly the entries with that key, in the order of the sequence; the front
\* of a non-empty sequence is the front handle of its key's bucket.
BucketsMirrorSequence ==
  \A i \in Insts :
    LET o == StateOf(i)
    IN /\ \A key \in Keys : o.A[key] = HandlesOf(o.B, key)
       /\ o.B # <<>> => /\ o.A[o.B[1].key] # <<>>
                        /\ Head(o.A[o.B[1].key]) = o.B[1].id

\* pop() has left two entries of different keys, the greater key in front
BucketsMirrorSequenceWitness ==
  /\ op.name = "pop" /\ op.res = "ok"
  /\ size("a") = 2
  /\ StateOf("a").B[1].key > StateOf("a").B[2].key
  /\ StateOf("a").A[StateOf("a").B[1].key] = <<StateOf("a").B[1].id>>
  /\ StateOf("a").A[StateOf("a").B[2].key] = <<StateOf("a").B[2].id>>

\* C9 (move_to_back): after a successful move_to_back(key) the entries are
\* those of the other keys in their previous order, followed by those of key
\* in their previous order; size() and every count(k) are unchanged.
MoveToBackResult ==
  [][\A i \in Insts, key \in Keys :
       ((\E ff \in BOOLEAN : move_to_back(i, key, ff)) /\ op'.res = "ok")
         => /\ Entries(i)' = SelectSeq(Entries(i), LAMBDA e : e[1] # key)
                               \o SelectSeq(Entries(i), LAMBDA e : e[1] = key)
            /\ Observed(i)'.size = Observed(i).size
            /\ Observed(i)'.count = Observed(i).count]_vars

\* (1, a), (2, b), (1, c) has become (2, b), (1, a), (1, c)
MoveToBackResultWitness ==
  /\ op.name = "move_to_back" /\ op.res = "ok"
  /\ Entries("a") = <<<<2, 2>>, <<1, 1>>, <<1, 2>>>>

\* C10 (FIFO order): a successful push appends one entry at the back and
\* changes no other; a successful pop() removes the entry at the front and
\* changes no other.  Entries therefore leave in the order they were pushed.
FifoOrder ==
  [][\A i \in Insts :
       /\ (op'.name = "push" /\ op'.inst = i /\ op'.res = "ok")
            => \E key \in Keys, val \in Vals :
                 Entries(i)' = Append(Entries(i), <<key, val>>)
       /\ (op'.name = "pop" /\ op'.inst = i /\ op'.res = "ok")
            => /\ Entries(i) # <<>>
               /\ Entries(i)' = Tail(Entries(i))]_vars

\* pop() has removed the front of three entries; the two pushed after it
\* remain, in the order of their pushes
FifoOrderWitness ==
  /\ op.name = "pop" /\ op.res = "ok"
  /\ Entries("a") = <<<<2, 1>>, <<1, 2>>>>

\* some call on instance i that needs a non-empty container
NonEmptyCall(i) ==
  \/ \E ff \in BOOLEAN : pop(i, ff)
  \/ \E which \in {"front", "back"}, key \in Keys, ff \in BOOLEAN, keep \in BOOLEAN :
        accessor(i, which, key, ff, keep)

\* C11 (errors before any change): pop(), front() and back() on an empty
\* container end with the empty error, and pop(key), move_to_back(key),
\* first(key) and last(key) for a key that is not in the index end with the
\* key-not-found error; a call that ends with either error has changed
\* nothing: the entries, the index, the flags and the sharing of every
\* instance are as before, and so is the reference the caller holds.
ErrorsBeforeChange ==
  [][/\ op'.res \in {"empty", "key not found"} => UNCHANGED <<inst, heap, ref>>
     /\ \A i \in Insts :
          (inst[i].obj # Null /\ size(i) = 0 /\ NonEmptyCall(i)) => op'.res = "empty"
     /\ \A i \in Insts, key \in Keys :
          (inst[i].obj # Null /\ ~contains(StateOf(i), key) /\ KeyedCall(i, key))
            => op'.res = "key not found"]_vars

\* pop() on an instance of an empty state that it shares with the other
\* instance has ended with the empty error
ErrorsBeforeChangeWitness ==
  /\ op = [name |-> "pop", inst |-> "a", res |-> "empty", forked |-> FALSE]
  /\ inst["a"].obj # Null
  /\ inst["a"].obj = inst["b"].obj

\* the names under which the calls of the read-only operations are recorded
ReadOnlyNames ==
  {ConstName(which) : which \in {"front", "back", "first", "last"}} \cup ObserverNames

\* C12 (read-only operations): a call of const front(), back(), first(key),
\* last(key), or of size(), empty(), count(key), k_begin(), k_end(), that
\* returns or throws leaves every instance, flag, state object and the sharing
\* between instances as they were, also when the state is shared or flagged.
ReadOnlyFrame ==
  [][(op'.name \in ReadOnlyNames /\ op'.res # "undefined")
       => UNCHANGED <<inst, heap, ref>>]_vars

\* const first(key) has returned on an instance that shares its non-empty
\* state with the other instance
ReadOnlyFrameWitness ==
  /\ op = [name |-> "first const", inst |-> "b", res |-> "ok", forked |-> FALSE]
  /\ inst["a"].obj = inst["b"].obj
  /\ size("b") > 0

\* the node of the earliest (which = "first") or latest entry of B with the key
ExtremeOf(B, which, key) ==
  LET hs == HandlesOf(B, key)
  IN IF which = "first" THEN hs[1] ELSE hs[Len(hs)]

\* what first(key) and last(key) find in the state of instance i, for every
\* key that has an entry: its earliest and its latest entry
FirstLastFound(i) ==
  \A key \in LiveKeys(i), which \in {"first", "last"} :
    entry_of(StateOf(i), which, key) =
      [ub |-> FALSE, node |-> ExtremeOf(StateOf(i).B, which, key)]

\* C13 (first and last): in every state reached, for every key with an entry,
\* first(key) finds the earliest entry with that key and last(key) the latest;
\* and a call of the non-const first(key) or last(key) for such a key returns
\* a reference to that entry, leaving the entries as they were.
FirstLastEntries ==
  [][\A i \in Insts :
       /\ FirstLastFound(i)'
       /\ \A key \in LiveKeys(i), which \in {"first", "last"} :
            accessor(i, which, key, FALSE, FALSE)
              => /\ op'.res = "ok"
                 /\ Entries(i)' = Entries(i)
                 /\ ref' = LiveRef(i, inst'[i].obj, ExtremeOf(StateOf(i).B, which, key)')]_vars

\* last(key) has returned the third of three entries, the first of which has
\* the same key and the second another
FirstLastEntriesWitness ==
  /\ op.name = "last" /\ op.res = "ok"
  /\ size("a") = 3
  /\ Entries("a")[1][1] = Entries("a")[3][1]
  /\ Entries("a")[2][1] # Entries("a")[3][1]
  /\ ref = LiveRef("a", inst["a"].obj, StateOf("a").B[3].id)

\* C14 (move_to_back copies no value): a call of move_to_back(key) on an
\* instance that owns its state alone and is not flagged, for a key of the
\* index, cannot throw, whatever the copies and moves of the value type do:
\* it returns, without a fork, with the same state object and flag.
MoveToBackNoCopy ==
  [][\A i \in Insts, key \in Keys :
       (/\ inst[i].obj # Null
        /\ ~NeedsCopy(inst, i)
        /\ contains(StateOf(i), key)
        /\ \E ff \in BOOLEAN : move_to_back(i, key, ff))
         => /\ op'.res = "ok"
            /\ ~op'.forked
            /\ inst'[i] = inst[i]]_vars

\* move_to_back has returned without a fork on an unflagged instance of three
\* entries, the last two of which have the key moved
MoveToBackNoCopyWitness ==
  /\ op = [name |-> "move_to_back", inst |-> "a", res |-> "ok", forked |-> FALSE]
  /\ ~inst["a"].must_copy
  /\ size("a") = 3
  /\ Entries("a")[1][1] # Entries("a")[2][1]
  /\ Entries("a")[2][1] = Entries("a")[3][1]
  /\ Entries("a")[2][2] > Entries("a")[3][2]

\* C15 (rollback of move_to_back in the variant): when the copy of the
\* stop-th entry of the key (stop >= 2) throws in move_to_back of
\* src/unnamed/part_000, the entries and all buckets are as before the call.
MoveToBackRollback ==
  [][\A i \in Insts, key \in Keys, stop \in 2..MaxNodes :
       (move_to_back_000(i, key, FALSE, stop) /\ op'.res # "undefined")
         => /\ op'.res = Failure
            /\ Entries(i)' = Entries(i)
            /\ StateOf(i)' = StateOf(i)]_vars

\* C16 (clear cannot fail): every call of clear() returns without error and
\* leaves the instance with size() = 0 and no key in the index.
ClearNeverFails ==
  [][\A i \in Insts :
       (inst[i].obj # Null /\ \E ff \in BOOLEAN : clear(i, ff))
         => /\ op'.res = "ok"
            /\ size(i)' = 0
            /\ StateOf(i)'.keys = {}]_vars

\* a flagged instance holds no state object, or one that no other instance holds
FlaggedOwnsAlone(i) ==
  (inst[i].must_copy /\ inst[i].obj # Null) => use_count(inst, inst[i].obj) = 1

\* d is copy- or move-constructed or -assigned from s, and nothing throws
MadeFrom(d, s) ==
  \/ copy_constructor(d, s, FALSE)
  \/ move_constructor(d, s, FALSE)
  \/ copy_assign(d, s, FALSE)
  \/ move_assign(d, s, FALSE)

\* C17 (flagged state is never shared): after every call a flagged instance
\* is the only holder of its state object.  Copy and move construction and
\* assignment from a flagged source give the new instance a state object built
\* during the call, held by it alone, with the flag clear and the entries of
\* the source; copy construction from an unflagged source makes no copy and
\* shares the state object of the source.
FlaggedNeverShared ==
  [][/\ \A i \in Insts : FlaggedOwnsAlone(i)'
     /\ \A d \in Insts, s \in Insts :
          /\ (inst[s].obj # Null /\ inst[s].must_copy /\ MadeFrom(d, s) /\ op'.res = "ok")
               => /\ op'.forked
                  /\ ~inst'[d].must_copy
                  /\ use_count(inst, inst[d].obj)' = 1
                  /\ Entries(d)' = Entries(s)
          /\ (~inst[s].must_copy /\ copy_constructor(d, s, FALSE))
               => /\ op'.res = "ok"
                  /\ ~op'.forked
                  /\ inst'[d] = inst'[s]
                  /\ Entries(d)' = Entries(s)]_vars

\* b has been copy-constructed from the flagged a: it has the entry of a in a
\* state object of its own, and no flag
FlaggedNeverSharedWitness ==
  /\ op = [name |-> "copy_constructor", inst |-> "b", res |-> "ok", forked |-> TRUE]
  /\ inst["a"].must_copy /\ ~inst["b"].must_copy
  /\ inst["a"].obj # inst["b"].obj
  /\ size("a") = 1
  /\ Entries("b") = Entries("a")

\* C18 (a fork changes no observation): in every state where copy() copies,
\* the state it builds has the same entries in the same order, the same
\* count(k) for every k and the same key sequence from k_begin() to k_end() as
\* the state it replaces, and the instance then holds it alone, unflagged.
ForkPreservesObservation ==
  \A i \in Insts :
    (inst[i].obj # Null /\ NeedsCopy(inst, i))
      => LET w == copy(Now, i)
             o == Obj(w, i)
         IN /\ EntriesOf(o.B) = Entries(i)
            /\ \A key \in Keys :
                 (IF contains(o, key) THEN Len(o.A[key]) ELSE 0) = count(i, key)
            /\ KeysAbove(o.keys, 0) = k_iteration(i)
            /\ unique(w.ins, i)
            /\ ~w.ins[i].must_copy

\* C19 (a second mutable accessor forks): a call of the non-const front(),
\* back(), first(key) or last(key) that returns, made on a flagged instance
\* that holds its state alone, replaces the state by a copy built during the
\* call, with the same entries; a reference returned by an earlier accessor
\* of the instance, if the caller still holds it, refers to no entry of the
\* instance afterwards.
SecondAccessorForks ==
  [][\A i \in Insts, which \in {"front", "back", "first", "last"},
        key \in Keys, keep \in BOOLEAN :
       (/\ inst[i].obj # Null
        /\ inst[i].must_copy
        /\ unique(inst, i)
        /\ accessor(i, which, key, FALSE, keep)
        /\ op'.res = "ok")
         => /\ op'.forked
            /\ Entries(i)' = Entries(i)
            /\ (keep /\ ref.st = "live" /\ ref.by = i) => ref' = NoRef]_vars

\* back() has forked the two entries of a flagged instance, and the caller,
\* who did not take the reference returned, holds no live reference
SecondAccessorForksWitness ==
  /\ op = [name |-> "back", inst |-> "a", res |-> "ok", forked |-> TRUE]
  /\ inst["a"].must_copy
  /\ size("a") = 2
  /\ ref = NoRef

\* C20 (moved-from instance): after d is move-constructed or move-assigned
\* from another instance s, the entries of d are those s had before, and s
\* still holds a state object.
MovedFromValid ==
  [][\A d \in Insts, s \in Insts :
       (/\ d # s
        /\ inst[s].obj # Null
        /\ move_constructor(d, s, FALSE) \/ move_assign(d, s, FALSE))
         => /\ op'.res = "ok"
            /\ Entries(d)' = Entries(s)
            /\ inst'[s].obj # Null]_vars

====
